---- MODULE Spec2Model ----
(***************************************************************************)
(* idlgen: a Solana IDL (JSON) to Go bindings generator.                   *)
(*                                                                         *)
(* The repository carries three builds of package idlgen:                  *)
(*   "main"    src/main.go                                                 *)
(*   "part000" src/unnamed/part_000                                        *)
(*   "part001" src/unnamed/part_001                                        *)
(* Each has its own IdlType.UnmarshalJSON, mapType, discriminator helpers, *)
(* Generate and goTemplate.  The model runs Generate of one build (impl)   *)
(* on one input document (doc), step by step.                              *)
(*                                                                         *)
(* Go strings are sequences of one-character strings, so that the code's   *)
(* character loops (strings.Title, the account-name normalisation) are     *)
(* computed; text the generator emits is a TLA+ string built with \o.      *)
(***************************************************************************)
EXTENDS Integers, Sequences, FiniteSets, TLC

VARIABLES
    impl,    \* the build whose Generate runs: "main", "part000" or "part001"
    doc,     \* the input: the file at *idlPath and what it holds
    pc,      \* Generate's position
    idl,     \* var idl IDL
    data,    \* the template data besides the IDL: Prefix and ClientName
    out,     \* bytes.Buffer buf: the declarations rendered so far
    calls,   \* the discriminator derivers the template has called, in order
    file,    \* the file at *outPath
    result   \* how Generate ended

vars == <<impl, doc, pc, idl, data, out, calls, file, result>>

(***************************************************************************)
(* Characters and Go's strings / unicode helpers (ASCII).                   *)
(***************************************************************************)
LowerChars == <<"a","b","c","d","e","f","g","h","i","j","k","l","m",
                "n","o","p","q","r","s","t","u","v","w","x","y","z">>
UpperChars == <<"A","B","C","D","E","F","G","H","I","J","K","L","M",
                "N","O","P","Q","R","S","T","U","V","W","X","Y","Z">>
DigitChars == <<"0","1","2","3","4","5","6","7","8","9">>

Range(s) == {s[i] : i \in DOMAIN s}

IndexOf(s, c) == CHOOSE i \in DOMAIN s : s[i] = c

\* unicode.IsUpper
IsUpper(c) == c \in Range(UpperChars)

\* unicode.ToLower
ToLower(c) == IF c \in Range(UpperChars) THEN LowerChars[IndexOf(UpperChars, c)] ELSE c

\* unicode.ToTitle (ASCII: upper case)
ToTitle(c) == IF c \in Range(LowerChars) THEN UpperChars[IndexOf(LowerChars, c)] ELSE c

\* string(chars): the Go string as emitted text
RECURSIVE Str(_)
Str(cs) == IF cs = <<>> THEN "" ELSE Head(cs) \o Str(Tail(cs))

\* strings.ReplaceAll(s, old, new) for a one-character old and a new of length <= 1
RECURSIVE ReplaceAll(_, _, _)
ReplaceAll(s, old, new) ==
    IF s = <<>> THEN <<>>
    ELSE (IF Head(s) = old THEN new ELSE <<Head(s)>>) \o ReplaceAll(Tail(s), old, new)

\* strings.isSeparator: letters, digits and underscore are not separators; in
\* ASCII everything else is.
isSeparator(c) ==
    ~ (c \in Range(LowerChars) \/ c \in Range(UpperChars) \/ c \in Range(DigitChars) \/ c = "_")

\* strings.Title: upper-cases the first letter of every word; prev starts as ' '.
RECURSIVE TitleFrom(_, _)
TitleFrom(prev, s) ==
    IF s = <<>> THEN <<>>
    ELSE <<IF isSeparator(prev) THEN ToTitle(Head(s)) ELSE Head(s)>> \o TitleFrom(Head(s), Tail(s))

Title(s) == TitleFrom(" ", s)

\* strconv / fmt %d of an integer
RECURSIVE ItoaNat(_)
ItoaNat(n) == IF n < 10 THEN DigitChars[n + 1] ELSE ItoaNat(n \div 10) \o DigitChars[(n % 10) + 1]

Itoa(n) == IF n < 0 THEN "-" \o ItoaNat(-n) ELSE ItoaNat(n)

(***************************************************************************)
(* JSON values, which are also the values encoding/json stores in an       *)
(* interface{}: string, float64, bool, nil, []interface{},                 *)
(* map[string]interface{}.  A number is kept in tenths (25 is 2.5).        *)
(***************************************************************************)
JString(cs) == [t |-> "string", str |-> cs]
JNumber(n10) == [t |-> "number", tenths |-> n10]
JBool(b) == [t |-> "bool", b |-> b]
JNull == [t |-> "null"]
JArray(a) == [t |-> "array", arr |-> a]
JObject(m) == [t |-> "object", obj |-> m]
EmptyMap == [k \in {} |-> JNull]

\* m[key] on a map[string]interface{}: nil when the key is absent
MapGet(m, key) == IF key \in DOMAIN m THEN m[key] ELSE JNull

\* Go pointers: nil, or a pointer to a value
Nil == [nil |-> TRUE]
Ptr(v) == [nil |-> FALSE, v |-> v]

\* int(f) for a float64 f = n10 / 10: truncation toward zero
IntOfFloat(n10) == IF n10 >= 0 THEN n10 \div 10 ELSE -((-n10) \div 10)

(***************************************************************************)
(* IdlType and its custom decoding.                                        *)
(***************************************************************************)
\* IdlType{}: the zero value (Primitive "", every pointer nil)
ZeroIdlType ==
    [Primitive |-> <<>>, Defined |-> Nil, Array |-> Nil, Vec |-> Nil, Option |-> Nil, Coption |-> Nil]

NoErr == "nil"
ErrUnmarshalType == "json: cannot unmarshal"
ErrUnknownStructure == "unknown IDL type structure"

Decoded(t) == [err |-> NoErr, t |-> t]
Failed(e) == [err |-> e, t |-> ZeroIdlType]

\* json.Unmarshal(data, &s) with s a string: succeeds on a JSON string and on
\* null (which leaves s == "")
UnmarshalsIntoString(j) == j.t \in {"string", "null"}
StringOf(j) == IF j.t = "string" THEN j.str ELSE <<>>

\* (*IdlType).UnmarshalJSON of src/main.go (the same text is at
\* src/unnamed/part_001:136-169)
UnmarshalJSON_main(j) ==
    IF UnmarshalsIntoString(j)
    THEN Decoded([ZeroIdlType EXCEPT !.Primitive = StringOf(j)])
    ELSE IF j.t # "object"
    THEN Failed(ErrUnmarshalType)
    ELSE LET obj == j.obj
             defined == MapGet(obj, "defined")
             array == MapGet(obj, "array")
         IN  IF defined.t = "string"
             THEN Decoded([ZeroIdlType EXCEPT !.Defined = Ptr(defined.str)])
             ELSE IF defined.t = "object" /\ MapGet(defined.obj, "name").t = "string"
             THEN Decoded([ZeroIdlType EXCEPT !.Defined = Ptr(MapGet(defined.obj, "name").str)])
             ELSE IF array.t = "array" /\ Len(array.arr) = 2
             THEN Decoded([ZeroIdlType EXCEPT !.Array = Ptr(<<array.arr[1], array.arr[2]>>)])
             ELSE IF "vec" \in DOMAIN obj
             THEN Decoded([ZeroIdlType EXCEPT !.Vec = Ptr(obj["vec"])])
             ELSE IF "option" \in DOMAIN obj
             THEN Decoded([ZeroIdlType EXCEPT !.Option = Ptr(obj["option"])])
             ELSE Decoded(ZeroIdlType)

\* (*IdlType).UnmarshalJSON of src/unnamed/part_000
UnmarshalJSON_part000(j) ==
    IF UnmarshalsIntoString(j)
    THEN Decoded([ZeroIdlType EXCEPT !.Primitive = StringOf(j)])
    ELSE IF j.t # "object"
    THEN Failed(ErrUnmarshalType)
    ELSE LET obj == j.obj
             defined == MapGet(obj, "defined")
             array == MapGet(obj, "array")
         IN  IF defined.t = "string"
             THEN Decoded([ZeroIdlType EXCEPT !.Defined = Ptr(defined.str)])
             ELSE IF array.t = "array" /\ Len(array.arr) = 2
             THEN Decoded([ZeroIdlType EXCEPT !.Array = Ptr(<<array.arr[1], array.arr[2]>>)])
             ELSE IF "vec" \in DOMAIN obj
             THEN Decoded([ZeroIdlType EXCEPT !.Vec = Ptr(obj["vec"])])
             ELSE IF "option" \in DOMAIN obj
             THEN Decoded([ZeroIdlType EXCEPT !.Option = Ptr(obj["option"])])
             ELSE IF "coption" \in DOMAIN obj
             THEN Decoded([ZeroIdlType EXCEPT !.Coption = Ptr(obj["coption"])])
             ELSE Failed(ErrUnknownStructure)

\* The build's IdlType decoder
UnmarshalJSON(b, j) ==
    IF b = "part000" THEN UnmarshalJSON_part000(j) ELSE UnmarshalJSON_main(j)

\* mapType's inner decode: json.Marshal(v), then json.Unmarshal into a fresh
\* IdlType with the error dropped (`_ = json.Unmarshal(...)`): a failed decode
\* leaves the zero value.
DecodeInner(b, v) == UnmarshalJSON(b, v).t

(***************************************************************************)
(* toPascalCase                                                            *)
(***************************************************************************)
\* src/main.go and src/unnamed/part_001: "_" becomes a word break
toPascalCase_main(s) == ReplaceAll(Title(ReplaceAll(s, "_", <<" ">>)), " ", <<>>)

\* src/unnamed/part_000: "_" and "-" become word breaks
toPascalCase_part000(s) ==
    ReplaceAll(Title(ReplaceAll(ReplaceAll(s, "_", <<" ">>), "-", <<" ">>)), " ", <<>>)

toPascalCase(b, s) == IF b = "part000" THEN toPascalCase_part000(s) ELSE toPascalCase_main(s)

(***************************************************************************)
(* mapType: IdlType -> Go type text.  A result is the text, or the panic   *)
(* of the failed type assertion size.(float64); n is the number of         *)
(* invocations of mapType that produced it (the one that returns it and    *)
(* the nested ones).                                                       *)
(***************************************************************************)
GoType(s) == [panic |-> FALSE, go |-> s, n |-> 1]
Panicked == [panic |-> TRUE, go |-> "", n |-> 1]
Wrapped(pre, r) ==
    IF r.panic THEN [r EXCEPT !.n = @ + 1] ELSE [panic |-> FALSE, go |-> pre \o r.go, n |-> r.n + 1]

\* A variant that writes the element type before the length.
ArrayOf_elementFirst(size, r) ==
    IF size.t # "number" THEN [Panicked EXCEPT !.n = r.n + 1]
    ELSE IF r.panic THEN [r EXCEPT !.n = @ + 1]
    ELSE [panic |-> FALSE, go |-> r.go \o "[" \o Itoa(IntOfFloat(size.tenths)) \o "]", n |-> r.n + 1]

\* fmt.Sprintf("[%d]%s", int(size.(float64)), inner)
ArrayOf(size, r) ==
    IF size.t # "number" THEN [Panicked EXCEPT !.n = r.n + 1]
    ELSE Wrapped("[" \o Itoa(IntOfFloat(size.tenths)) \o "]", r)

\* A variant that folds the 128-bit integers into the 64-bit cases.
mapPrimitive_main_128as64(p) ==
    CASE p = "bool" -> "bool"
      [] p \in {"u8", "i8"} -> "uint8"
      [] p = "u16" -> "uint16"
      [] p = "i16" -> "int16"
      [] p = "u32" -> "uint32"
      [] p = "i32" -> "int32"
      [] p \in {"u64", "u128"} -> "uint64"
      [] p \in {"i64", "i128"} -> "int64"
      [] p = "bytes" -> "[]byte"
      [] p = "string" -> "string"
      [] p \in {"pubkey", "publicKey"} -> "solana.PublicKey"
      [] OTHER -> "interface{}"

\* the primitive switch of src/main.go
mapPrimitive_main(p) ==
    CASE p = "bool" -> "bool"
      [] p \in {"u8", "i8"} -> "uint8"
      [] p = "u16" -> "uint16"
      [] p = "i16" -> "int16"
      [] p = "u32" -> "uint32"
      [] p = "i32" -> "int32"
      [] p = "u64" -> "uint64"
      [] p = "i64" -> "int64"
      [] p = "u128" -> "bin.Uint128"
      [] p = "i128" -> "bin.Int128"
      [] p = "bytes" -> "[]byte"
      [] p = "string" -> "string"
      [] p \in {"pubkey", "publicKey"} -> "solana.PublicKey"
      [] OTHER -> "interface{}"

\* the primitive switch of src/unnamed/part_000 ("pubkey" is tested first)
mapPrimitive_part000(p) ==
    IF p = "pubkey" THEN "solana.PublicKey"
    ELSE CASE p = "u8" -> "uint8"
           [] p = "i8" -> "int8"
           [] p = "u16" -> "uint16"
           [] p = "i16" -> "int16"
           [] p = "u32" -> "uint32"
           [] p = "i32" -> "int32"
           [] p = "u64" -> "uint64"
           [] p = "i64" -> "int64"
           [] p = "u128" -> "*big.Int"
           [] p = "i128" -> "*big.Int"
           [] p = "bool" -> "bool"
           [] p = "string" -> "string"
           [] p = "bytes" -> "[]byte"
           [] p = "publicKey" -> "solana.PublicKey"
           [] OTHER -> "interface{}"

\* the primitive switch of src/unnamed/part_001
mapPrimitive_part001(p) ==
    CASE p = "bool" -> "bool"
      [] p \in {"u8", "i8"} -> "uint8"
      [] p = "u16" -> "uint16"
      [] p = "i16" -> "int16"
      [] p = "u32" -> "uint32"
      [] p = "i32" -> "int32"
      [] p = "u64" -> "uint64"
      [] p = "i64" -> "int64"
      [] p \in {"u128", "i128"} -> "*big.Int"
      [] p = "bytes" -> "[]byte"
      [] p = "string" -> "string"
      [] p \in {"pubkey", "publicKey"} -> "solana.PublicKey"
      [] OTHER -> "interface{}"

\* A variant that names a defined type without the program prefix.
RECURSIVE mapType_main_bareName(_, _)
mapType_main_bareName(prefix, t) ==
    IF t.Primitive # <<>> THEN GoType(mapPrimitive_main(Str(t.Primitive)))
    ELSE IF ~ t.Defined.nil THEN GoType(Str(toPascalCase_main(t.Defined.v)))
    ELSE IF ~ t.Option.nil
    THEN Wrapped("*", mapType_main_bareName(prefix, DecodeInner("main", t.Option.v)))
    ELSE IF ~ t.Vec.nil
    THEN Wrapped("[]", mapType_main_bareName(prefix, DecodeInner("main", t.Vec.v)))
    ELSE IF ~ t.Array.nil
    THEN ArrayOf(t.Array.v[2], mapType_main_bareName(prefix, DecodeInner("main", t.Array.v[1])))
    ELSE GoType("interface{}")

\* src/main.go: the closure mapType inside Generate; prefix is the captured
\* toPascalCase(idl.Name)
RECURSIVE mapType_main(_, _)
mapType_main(prefix, t) ==
    IF t.Primitive # <<>> THEN GoType(mapPrimitive_main(Str(t.Primitive)))
    ELSE IF ~ t.Defined.nil THEN GoType(Str(prefix \o toPascalCase_main(t.Defined.v)))
    ELSE IF ~ t.Option.nil THEN Wrapped("*", mapType_main(prefix, DecodeInner("main", t.Option.v)))
    ELSE IF ~ t.Vec.nil THEN Wrapped("[]", mapType_main(prefix, DecodeInner("main", t.Vec.v)))
    ELSE IF ~ t.Array.nil
    THEN ArrayOf(t.Array.v[2], mapType_main(prefix, DecodeInner("main", t.Array.v[1])))
    ELSE GoType("interface{}")

\* src/unnamed/part_000
RECURSIVE mapType_part000(_)
mapType_part000(t) ==
    IF t.Primitive # <<>> THEN GoType(mapPrimitive_part000(Str(t.Primitive)))
    ELSE IF ~ t.Defined.nil THEN GoType(Str(toPascalCase_part000(t.Defined.v)))
    ELSE IF ~ t.Array.nil
    THEN ArrayOf(t.Array.v[2], mapType_part000(DecodeInner("part000", t.Array.v[1])))
    ELSE IF ~ t.Vec.nil THEN Wrapped("[]", mapType_part000(DecodeInner("part000", t.Vec.v)))
    ELSE IF ~ t.Option.nil \/ ~ t.Coption.nil
    THEN LET inner == IF ~ t.Option.nil THEN t.Option.v ELSE t.Coption.v
         IN  Wrapped("*", mapType_part000(DecodeInner("part000", inner)))
    ELSE GoType("interface{}")

\* A variant that resolves the inner value of an option twice.
RECURSIVE mapType_part001_twice(_)
mapType_part001_twice(t) ==
    IF t.Primitive # <<>> THEN GoType(mapPrimitive_part001(Str(t.Primitive)))
    ELSE IF ~ t.Defined.nil THEN GoType(Str(toPascalCase_main(t.Defined.v)))
    ELSE IF ~ t.Option.nil
    THEN [Wrapped("*", mapType_part001_twice(DecodeInner("part001", t.Option.v)))
             EXCEPT !.n = 1 + 2 * mapType_part001_twice(DecodeInner("part001", t.Option.v)).n]
    ELSE IF ~ t.Vec.nil THEN Wrapped("[]", mapType_part001_twice(DecodeInner("part001", t.Vec.v)))
    ELSE IF ~ t.Array.nil
    THEN ArrayOf(t.Array.v[2], mapType_part001_twice(DecodeInner("part001", t.Array.v[1])))
    ELSE GoType("interface{}")

\* src/unnamed/part_001
RECURSIVE mapType_part001(_)
mapType_part001(t) ==
    IF t.Primitive # <<>> THEN GoType(mapPrimitive_part001(Str(t.Primitive)))
    ELSE IF ~ t.Defined.nil THEN GoType(Str(toPascalCase_main(t.Defined.v)))
    ELSE IF ~ t.Option.nil THEN Wrapped("*", mapType_part001(DecodeInner("part001", t.Option.v)))
    ELSE IF ~ t.Vec.nil THEN Wrapped("[]", mapType_part001(DecodeInner("part001", t.Vec.v)))
    ELSE IF ~ t.Array.nil
    THEN ArrayOf(t.Array.v[2], mapType_part001(DecodeInner("part001", t.Array.v[1])))
    ELSE GoType("interface{}")

\* The build's mapType
mapType(b, prefix, t) ==
    CASE b = "main" -> mapType_main(prefix, t)
      [] b = "part000" -> mapType_part000(t)
      [] b = "part001" -> mapType_part001(t)

\* (*IdlType).UnmarshalJSON of src/unnamed/part_001: the text of src/main.go's
UnmarshalJSON_part001(j) == UnmarshalJSON_main(j)

(***************************************************************************)
(* IdlEnumField and its custom decoding (src/main.go, and the same text in *)
(* src/unnamed/part_001; src/unnamed/part_000 has no enum variants).       *)
(***************************************************************************)
ZeroEnumField == [Name |-> <<>>, Type |-> ZeroIdlType]

\* json.Unmarshal(data, &f) with f struct{Name string; Type IdlType}: a "name"
\* that is neither a string nor null is a type error, a "type" is decoded by
\* IdlType.UnmarshalJSON
NamedFieldOf(name, ty) ==
    IF ty.err # NoErr THEN [err |-> ty.err, ef |-> ZeroEnumField]
    ELSE IF ~ UnmarshalsIntoString(name) THEN [err |-> ErrUnmarshalType, ef |-> ZeroEnumField]
    ELSE [err |-> NoErr, ef |-> [Name |-> StringOf(name), Type |-> ty.t]]

UnmarshalNamedField(b, m) == NamedFieldOf(m["name"], UnmarshalJSON(b, m["type"]))

\* var t IdlType; json.Unmarshal(data, &t); ef.Type = t
PositionalFieldOf(t) ==
    IF t.err # NoErr THEN [err |-> t.err, ef |-> ZeroEnumField]
    ELSE [err |-> NoErr, ef |-> [Name |-> <<>>, Type |-> t.t]]

\* A variant of the decoder that takes any object with a "name" key for a named
\* member, whatever else it carries.
UnmarshalJSON_IdlEnumField_nameOnly(b, j) ==
    IF UnmarshalsIntoString(j)
    THEN [err |-> NoErr, ef |-> [Name |-> <<>>, Type |-> [ZeroIdlType EXCEPT !.Primitive = StringOf(j)]]]
    ELSE IF j.t # "object"
    THEN [err |-> ErrUnmarshalType, ef |-> ZeroEnumField]
    ELSE IF "name" \in DOMAIN j.obj
    THEN NamedFieldOf(MapGet(j.obj, "name"), UnmarshalJSON(b, MapGet(j.obj, "type")))
    ELSE PositionalFieldOf(UnmarshalJSON(b, j))

\* (*IdlEnumField).UnmarshalJSON
UnmarshalJSON_IdlEnumField(b, j) ==
    IF UnmarshalsIntoString(j)
    THEN [err |-> NoErr, ef |-> [Name |-> <<>>, Type |-> [ZeroIdlType EXCEPT !.Primitive = StringOf(j)]]]
    ELSE IF j.t # "object"
    THEN [err |-> ErrUnmarshalType, ef |-> ZeroEnumField]
    ELSE LET m == j.obj
             hasName == "name" \in DOMAIN m
             hasType == "type" \in DOMAIN m
         IN  IF hasName /\ hasType
             THEN UnmarshalNamedField(b, m)
             ELSE PositionalFieldOf(UnmarshalJSON(b, j))

(***************************************************************************)
(* Discriminators.  sha256.Sum256 is the library's digest, kept abstract:  *)
(* byte i of the digest of msg is the value [sha256 |-> msg, index |-> i], *)
(* so two digests agree at a byte only for the same message and index.  A  *)
(* byte literal list ("0x%02x" parts joined by ", ") is the sequence of    *)
(* its byte values; an explicit byte v is [byte |-> v].                    *)
(***************************************************************************)
Sum256(msg) == [i \in 1..32 |-> [sha256 |-> Str(msg), index |-> i - 1]]

\* intSliceToBytesLiteral: "" for an empty slice, else one part per element
intSliceToBytesLiteral(nums) ==
    IF Len(nums) = 0 THEN <<>> ELSE [i \in 1..Len(nums) |-> [byte |-> nums[i]]]

\* bytesLiteral (src/unnamed/part_000): one part per byte
bytesLiteral(bs) == [i \in 1..Len(bs) |-> bs[i]]

\* the rune loop of accountDiscriminator: an underscore before every upper-case
\* rune that is not at index 0, every rune lower-cased
RECURSIVE SnakeFrom(_, _)
SnakeFrom(i, name) ==
    IF name = <<>> THEN <<>>
    ELSE (IF IsUpper(Head(name)) /\ i > 0 THEN <<"_">> ELSE <<>>)
         \o <<ToLower(Head(name))>> \o SnakeFrom(i + 1, Tail(name))

\* int(h[0]), ..., int(h[7])
FirstEight(h) == <<h[1], h[2], h[3], h[4], h[5], h[6], h[7], h[8]>>

\* A variant that hashes the snake-cased name, as accountDiscriminator does.
manualDiscriminator_normalized(prefix, name) ==
    FirstEight(Sum256(prefix \o <<":">> \o SnakeFrom(0, name)))

\* manualDiscriminator (src/main.go, src/unnamed/part_001): h[0..7] of
\* sha256(prefix + ":" + name)
manualDiscriminator(prefix, name) == FirstEight(Sum256(prefix \o <<":">> \o name))

\* accountDiscriminator (src/unnamed/part_000): h[:8] of
\* sha256("account:" + snake(name))
accountDiscriminator(name) ==
    SubSeq(Sum256(<<"a","c","c","o","u","n","t",":">> \o SnakeFrom(0, name)), 1, 8)

\* instructionDiscriminator (src/unnamed/part_000): h[:8] of sha256("global:" + name)
instructionDiscriminator(name) ==
    SubSeq(Sum256(<<"g","l","o","b","a","l",":">> \o name), 1, 8)

sAccount == <<"a","c","c","o","u","n","t">>
sGlobal == <<"g","l","o","b","a","l">>

(***************************************************************************)
(* json.Unmarshal(data, &idl): the document's entries into the IDL struct. *)
(* Names and discriminators are plain fields; a field's "type" goes        *)
(* through IdlType.UnmarshalJSON and an enum variant's field through       *)
(* IdlEnumField.UnmarshalJSON, and an error of either fails the parse.     *)
(***************************************************************************)
\* a []int field: nil when the key is absent, else the elements
SliceOf(p) == IF p.nil THEN <<>> ELSE p.v

\* IdlField
FieldOf(name, r) == [err |-> r.err, v |-> [Name |-> name, Type |-> r.t]]

DecodeField(b, f) == FieldOf(f.name, UnmarshalJSON(b, f.type))

DecodeFields(b, fs) == [i \in DOMAIN fs |-> DecodeField(b, fs[i])]

AnyErr(rs) == \E i \in DOMAIN rs : rs[i].err # NoErr
FirstErr(rs) == rs[CHOOSE i \in DOMAIN rs : rs[i].err # NoErr /\ \A k \in 1..(i - 1) : rs[k].err = NoErr].err
Values(rs) == [i \in DOMAIN rs |-> rs[i].v]

\* the error of decoding two lists one after the other
ErrOf(rs, qs) == IF AnyErr(rs) THEN FirstErr(rs) ELSE IF AnyErr(qs) THEN FirstErr(qs) ELSE NoErr

\* IdlVariant (src/main.go, src/unnamed/part_001)
VariantOf(name, rs) ==
    [err |-> ErrOf(rs, <<>>), v |-> [Name |-> name, Fields |-> [i \in DOMAIN rs |-> rs[i].ef]]]

DecodeVariant(b, v) ==
    VariantOf(v.name, [i \in DOMAIN v.fields |-> UnmarshalJSON_IdlEnumField(b, v.fields[i])])

\* IdlTypeDefinition of src/main.go and src/unnamed/part_001: kind, fields, variants
TypeDefinitionOf_main(td, fs, vs) ==
    [err |-> ErrOf(fs, vs),
     v |-> [Name |-> td.name, Kind |-> td.kind, Fields |-> Values(fs), Variants |-> Values(vs)]]

DecodeTypeDefinition_main(b, td) ==
    TypeDefinitionOf_main(td, DecodeFields(b, td.fields),
                          [i \in DOMAIN td.variants |-> DecodeVariant(b, td.variants[i])])

\* IdlTypeDefinition of src/unnamed/part_000: kind and fields only
TypeDefinitionOf_part000(td, fs) ==
    [err |-> ErrOf(fs, <<>>), v |-> [Name |-> td.name, Kind |-> td.kind, Fields |-> Values(fs)]]

DecodeTypeDefinition_part000(td) == TypeDefinitionOf_part000(td, DecodeFields("part000", td.fields))

\* IdlAccount: an account an instruction uses
DecodeAccountUse(a) == [Name |-> a.name, IsWritable |-> a.writable, IsSigner |-> a.signer]

DecodeAccountUses(as) == [i \in DOMAIN as |-> DecodeAccountUse(as[i])]

\* IdlError
DecodeError(e) == [Code |-> e.code, Name |-> e.name, Message |-> e.msg]

\* IdlInstruction of src/main.go and src/unnamed/part_001
InstructionOf_main(ins, as) ==
    [err |-> ErrOf(as, <<>>),
     v |-> [Name |-> ins.name, Discriminator |-> SliceOf(ins.discriminator), Args |-> Values(as),
            Accounts |-> DecodeAccountUses(ins.accounts)]]

DecodeInstruction_main(b, ins) == InstructionOf_main(ins, DecodeFields(b, ins.args))

\* IdlInstruction of src/unnamed/part_000: the struct has no Discriminator field,
\* so a "discriminator" key of the document is dropped
InstructionOf_part000(ins, as) ==
    [err |-> ErrOf(as, <<>>),
     v |-> [Name |-> ins.name, Args |-> Values(as), Accounts |-> DecodeAccountUses(ins.accounts)]]

DecodeInstruction_part000(ins) == InstructionOf_part000(ins, DecodeFields("part000", ins.args))

\* IdlAccountDefinition
DecodeAccount(a) == [Name |-> a.name, Discriminator |-> SliceOf(a.discriminator)]

EmptyIDL ==
    [Name |-> <<>>, Instructions |-> <<>>, Accounts |-> <<>>, Types |-> <<>>, Errors |-> <<>>]

ErrSyntax == "invalid character"

\* A variant that drops the syntax error and goes on with the zero IDL.
IDLOf_syntaxErrorDropped(d, ins, tys) ==
    IF ~ d.wellFormed THEN [err |-> NoErr, idl |-> EmptyIDL]
    ELSE IF ErrOf(ins, tys) # NoErr THEN [err |-> ErrOf(ins, tys), idl |-> EmptyIDL]
    ELSE [err |-> NoErr,
          idl |-> [Name |-> d.name,
                   Instructions |-> Values(ins),
                   Accounts |-> [i \in DOMAIN d.accounts |-> DecodeAccount(d.accounts[i])],
                   Types |-> Values(tys),
                   Errors |-> [i \in DOMAIN d.errors |-> DecodeError(d.errors[i])]]]

\* json.Unmarshal(data, &idl)
IDLOf(d, ins, tys) ==
    IF ~ d.wellFormed THEN [err |-> ErrSyntax, idl |-> EmptyIDL]
    ELSE IF ErrOf(ins, tys) # NoErr THEN [err |-> ErrOf(ins, tys), idl |-> EmptyIDL]
    ELSE [err |-> NoErr,
          idl |-> [Name |-> d.name,
                   Instructions |-> Values(ins),
                   Accounts |-> [i \in DOMAIN d.accounts |-> DecodeAccount(d.accounts[i])],
                   Types |-> Values(tys),
                   Errors |-> [i \in DOMAIN d.errors |-> DecodeError(d.errors[i])]]]

UnmarshalIDL(b, d) ==
    IDLOf(d,
          [i \in DOMAIN d.instructions |->
              IF b = "part000" THEN DecodeInstruction_part000(d.instructions[i])
              ELSE DecodeInstruction_main(b, d.instructions[i])],
          [i \in DOMAIN d.types |->
              IF b = "part000" THEN DecodeTypeDefinition_part000(d.types[i])
              ELSE DecodeTypeDefinition_main(b, d.types[i])])

(***************************************************************************)
(* The program name: filepath.Base / filepath.Ext / strings.TrimSuffix on  *)
(* the input path, of which the model keeps the base name.                 *)
(***************************************************************************)
\* filepath.Ext: the suffix from the last dot, "" without a dot
Ext(fileName) ==
    IF "." \in Range(fileName)
    THEN LET i == CHOOSE k \in DOMAIN fileName :
                      fileName[k] = "." /\ \A m \in (k + 1)..Len(fileName) : fileName[m] # "."
         IN  SubSeq(fileName, i, Len(fileName))
    ELSE <<>>

\* strings.TrimSuffix(fileName, filepath.Ext(fileName))
FileStem(fileName) == SubSeq(fileName, 1, Len(fileName) - Len(Ext(fileName)))

sProgram == <<"p","r","o","g","r","a","m">>
sClient == <<"C","l","i","e","n","t">>

\* src/main.go: an empty name or the name "program" becomes the file stem
DefaultName_main(name, fileName) ==
    IF name = <<>> \/ name = sProgram THEN FileStem(fileName) ELSE name

\* src/unnamed/part_000: an empty name becomes the file stem
DefaultName_part000(name, fileName) == IF name = <<>> THEN FileStem(fileName) ELSE name

\* src/unnamed/part_001: an empty name becomes "program"
DefaultName_part001(name, fileName) == IF name = <<>> THEN sProgram ELSE name

DefaultName(b, name, fileName) ==
    CASE b = "main" -> DefaultName_main(name, fileName)
      [] b = "part000" -> DefaultName_part000(name, fileName)
      [] b = "part001" -> DefaultName_part001(name, fileName)

\* The prefix of every declared name: src/main.go's prefix variable,
\* src/unnamed/part_000's template variable $prefix; the template of
\* src/unnamed/part_001 prefixes nothing.
PrefixOf(b, name) == IF b = "part001" THEN <<>> ELSE toPascalCase(b, name)

\* *clientName, defaulted to toPascalCase(idl.Name) + "Client"
ClientNameOf(b, given, name) == IF given = <<>> THEN toPascalCase(b, name) \o sClient ELSE given

(***************************************************************************)
(* goTemplate, section by section.  A rendered declaration is a record of  *)
(* the texts the template writes into it.                                  *)
(***************************************************************************)
\* A variant that walks the errors from the last to the first.
ErrorsSection_reversed(b, prefix, errs) ==
    [i \in DOMAIN errs |->
        [name |-> IF b = "part000"
                  THEN Str(prefix \o toPascalCase(b, errs[Len(errs) + 1 - i].Name)) \o "Error"
                  ELSE "Err" \o Str(prefix \o toPascalCase(b, errs[Len(errs) + 1 - i].Name)),
         message |-> Str(errs[Len(errs) + 1 - i].Message)]]

\* {{ range .IDL.Errors }}: src/main.go and src/unnamed/part_001 declare
\* Err<Prefix><Name>, src/unnamed/part_000 declares <prefix><Name>Error
ErrorsSection(b, prefix, errs) ==
    [i \in DOMAIN errs |->
        [name |-> IF b = "part000"
                  THEN Str(prefix \o toPascalCase(b, errs[i].Name)) \o "Error"
                  ELSE "Err" \o Str(prefix \o toPascalCase(b, errs[i].Name)),
         message |-> Str(errs[i].Message)]]

\* {{ range .Accounts }} inside an instruction: the field of the Accounts
\* struct and the account meta
AccountUseLines(b, as) ==
    [i \in DOMAIN as |->
        [name |-> Str(toPascalCase(b, as[i].Name)),
         signer |-> as[i].IsSigner,
         writable |-> as[i].IsWritable]]

\* One struct field line: `Name Type `bin:"name"``.  The template of
\* src/unnamed/part_000 writes $prefix before the type of a field whose
\* .Type.Defined is set.
FieldLine(b, prefix, f, ty) ==
    [name |-> Str(toPascalCase(b, f.Name)),
     type |-> IF b = "part000" /\ ~ f.Type.Defined.nil THEN Str(prefix) \o ty ELSE ty,
     tag |-> Str(f.Name)]

\* {{ range fields }}: a panic of mapType ends the execution with an error
AnyPanic(rs) == \E i \in DOMAIN rs : rs[i].panic

FieldLinesOf(b, prefix, fs, rs) ==
    [panic |-> AnyPanic(rs), v |-> [i \in DOMAIN fs |-> FieldLine(b, prefix, fs[i], rs[i].go)]]

FieldLines(b, prefix, fs) ==
    FieldLinesOf(b, prefix, fs, [i \in DOMAIN fs |-> mapType(b, prefix, fs[i].Type)])

\* One entry of {{ range .IDL.Types }}.  src/main.go and src/unnamed/part_001
\* declare a struct for kind "struct", an alias of bin.BorshEnum for kind
\* "enum" and nothing otherwise; src/unnamed/part_000 declares a struct
\* whatever the kind.
TypeDeclOf(b, kind, name, fl) ==
    IF b = "part000" \/ kind = "struct"
    THEN [panic |-> fl.panic, v |-> [kind |-> "struct", name |-> name, fields |-> fl.v]]
    ELSE IF kind = "enum"
    THEN [panic |-> FALSE, v |-> [kind |-> "alias", name |-> name, fields |-> <<>>]]
    ELSE [panic |-> FALSE, v |-> [kind |-> "none", name |-> name, fields |-> <<>>]]

TypeDecl(b, prefix, td) ==
    TypeDeclOf(b, td.Kind, Str(prefix \o toPascalCase(b, td.Name)),
               IF b = "part000" \/ td.Kind = "struct" THEN FieldLines(b, prefix, td.Fields)
               ELSE [panic |-> FALSE, v |-> <<>>])

IsDeclared(d) == d.kind # "none"

TypesSectionOf(rs) ==
    [panic |-> AnyPanic(rs), v |-> SelectSeq([i \in DOMAIN rs |-> rs[i].v], IsDeclared)]

TypesSection(b, prefix, tds) == TypesSectionOf([i \in DOMAIN tds |-> TypeDecl(b, prefix, tds[i])])

\* The discriminator of an account.  src/main.go and src/unnamed/part_001:
\* {{ if .Discriminator }}{{ intSliceToBytesLiteral .Discriminator }}
\* {{ else }}{{ manualDiscriminator "account" .Name }}{{ end }}; src/unnamed/part_000
\* calls accountDiscriminator in the else branch.  `if` on a slice is true
\* when its length is not 0.
AccountDiscriminatorAction(b, a) ==
    IF Len(a.Discriminator) # 0
    THEN [lit |-> intSliceToBytesLiteral(a.Discriminator), calls |-> <<>>]
    ELSE IF b = "part000"
    THEN [lit |-> bytesLiteral(accountDiscriminator(a.Name)),
          calls |-> <<[fn |-> "accountDiscriminator", entity |-> "account", name |-> Str(a.Name)]>>]
    ELSE [lit |-> manualDiscriminator(sAccount, a.Name),
          calls |-> <<[fn |-> "manualDiscriminator", entity |-> "account", name |-> Str(a.Name)]>>]

\* The discriminator of an instruction.  src/main.go and src/unnamed/part_001
\* as for an account, with "global"; src/unnamed/part_000 writes
\* {{ instructionDiscriminator .Name | bytesLiteral }} unconditionally.
InstructionDiscriminatorAction(b, ins) ==
    IF b = "part000"
    THEN [lit |-> bytesLiteral(instructionDiscriminator(ins.Name)),
          calls |-> <<[fn |-> "instructionDiscriminator", entity |-> "instruction", name |-> Str(ins.Name)]>>]
    ELSE IF Len(ins.Discriminator) # 0
    THEN [lit |-> intSliceToBytesLiteral(ins.Discriminator), calls |-> <<>>]
    ELSE [lit |-> manualDiscriminator(sGlobal, ins.Name),
          calls |-> <<[fn |-> "manualDiscriminator", entity |-> "instruction", name |-> Str(ins.Name)]>>]

RECURSIVE Flatten(_)
Flatten(ss) == IF ss = <<>> THEN <<>> ELSE Head(ss) \o Flatten(Tail(ss))

\* {{ range .IDL.Accounts }}
AccountsSectionOf(b, prefix, accs, rs) ==
    [v |-> [i \in DOMAIN accs |->
               [name |-> Str(prefix \o toPascalCase(b, accs[i].Name)) \o "Discriminator",
                discriminator |-> rs[i].lit]],
     calls |-> Flatten([i \in DOMAIN rs |-> rs[i].calls])]

AccountsSection(b, prefix, accs) ==
    AccountsSectionOf(b, prefix, accs,
                      [i \in DOMAIN accs |-> AccountDiscriminatorAction(b, accs[i])])

\* {{ range .IDL.Instructions }}
\* the index of the instruction whose arguments panic first, else the last
LastExecuted(as) ==
    IF AnyPanic(as)
    THEN CHOOSE i \in DOMAIN as : as[i].panic /\ \A k \in 1..(i - 1) : ~ as[k].panic
    ELSE Len(as)

InstructionsSectionOf(b, prefix, inss, rs, as) ==
    [panic |-> AnyPanic(as),
     v |-> [i \in DOMAIN inss |->
               [name |-> Str(prefix \o toPascalCase(b, inss[i].Name))
                         \o (IF b = "part000" THEN "InstructionDiscriminator" ELSE "Discriminator"),
                discriminator |-> rs[i].lit,
                args |-> as[i].v,
                accounts |-> AccountUseLines(b, inss[i].Accounts)]],
     calls |-> Flatten([i \in 1..LastExecuted(as) |-> rs[i].calls])]

InstructionsSection(b, prefix, inss) ==
    InstructionsSectionOf(b, prefix, inss,
                          [i \in DOMAIN inss |-> InstructionDiscriminatorAction(b, inss[i])],
                          [i \in DOMAIN inss |-> FieldLines(b, prefix, inss[i].Args)])

(***************************************************************************)
(* The inputs.                                                             *)
(***************************************************************************)
Impls == {"main", "part000", "part001"}

\* nesting depth of the wrappers (vec, option, coption, array) in the type
\* values the documents carry
MaxDepth == 3

sBool == <<"b","o","o","l">>
sU8 == <<"u","8">>
sI8 == <<"i","8">>
sU16 == <<"u","1","6">>
sI16 == <<"i","1","6">>
sU32 == <<"u","3","2">>
sI32 == <<"i","3","2">>
sU64 == <<"u","6","4">>
sI64 == <<"i","6","4">>
sU128 == <<"u","1","2","8">>
sI128 == <<"i","1","2","8">>
sBytes == <<"b","y","t","e","s">>
sString == <<"s","t","r","i","n","g">>
sPubkey == <<"p","u","b","k","e","y">>
sPublicKey == <<"p","u","b","l","i","c","K","e","y">>
sF32 == <<"f","3","2">>
sFoo == <<"F","o","o">>
sGhost == <<"G","h","o","s","t">>
sMyType == <<"m","y","_","t","y","p","e">>
sX == <<"x">>
sValue == <<"v","a","l","u","e">>
sInitialize == <<"i","n","i","t","i","a","l","i","z","e">>
sInitializeCap == <<"I","n","i","t","i","a","l","i","z","e">>
sInitPool == <<"i","n","i","t","_","p","o","o","l">>
sInitPoolCamel == <<"i","n","i","t","P","o","o","l">>
sUserAccount == <<"U","s","e","r","A","c","c","o","u","n","t">>
sUserAccountSnake == <<"u","s","e","r","_","a","c","c","o","u","n","t">>
sVault == <<"v","a","u","l","t">>
sShape == <<"S","h","a","p","e">>
sCircle == <<"C","i","r","c","l","e">>
sCounter == <<"c","o","u","n","t","e","r">>
sIdlJson == <<"c","o","u","n","t","e","r",".","j","s","o","n">>
sDotJson == <<".","j","s","o","n">>
sIdl == <<"i","d","l">>

\* the primitive vocabulary
Vocabulary ==
    {sBool, sU8, sI8, sU16, sI16, sU32, sI32, sU64, sI64, sU128, sI128,
     sBytes, sString, sPubkey, sPublicKey}

\* strings outside the vocabulary
OtherStrings == {sF32, sFoo, sMyType, <<>>}

DefinedNames == {sFoo, sGhost, sMyType, sUserAccount, <<>>}

Four == JNumber(40)

\* type values at the bottom of a nest
InnerLeaves ==
    {JString(sU8), JString(sU64), JString(sFoo), JNull, Four, JObject([defined |-> JString(sFoo)])}

Wrappers(S) ==
    {JObject([vec |-> j]) : j \in S} \cup {JObject([option |-> j]) : j \in S}
    \cup {JObject([coption |-> j]) : j \in S}
    \cup {JObject([array |-> JArray(<<j, Four>>)]) : j \in S}

RECURSIVE Nest(_)
Nest(d) == IF d = 0 THEN InnerLeaves ELSE Nest(d - 1) \cup Wrappers(Nest(d - 1))

\* objects with a "defined" key, in both forms and malformed
DefinedJsons ==
    {JObject([defined |-> JString(n)]) : n \in DefinedNames}
    \cup {JObject([defined |-> JObject([name |-> JString(n)])]) : n \in DefinedNames}
    \cup {JObject([defined |-> Four]), JObject([defined |-> JObject(EmptyMap)]),
          JObject([defined |-> JObject([name |-> Four])])}

\* objects without a recognized key, and values that are no type at all
UnrecognizedJsons ==
    {JObject(EmptyMap), JObject([foo |-> JString(sU8)]), JObject([kind |-> JString(sFoo)]),
     JObject([name |-> JString(sX)]), JObject([type |-> JString(sU64)])}

NonTypeJsons == {Four, JBool(TRUE), JArray(<<>>), JArray(<<JString(sU8)>>)}

\* malformed or unusual "array" values
ArrayJsons ==
    {JObject([array |-> JArray(<<JString(sU8), n>>)]) :
        n \in {JNumber(0), JNumber(320), JNumber(25), JNumber(-10), JString(sFoo), JNull}}
    \cup {JObject([array |-> JArray(<<JString(sU8)>>)]),
          JObject([array |-> JArray(<<JString(sU8), Four, Four>>)]),
          JObject([array |-> Four])}

\* several recognized keys at once
MultiKeyJsons ==
    {JObject([vec |-> JString(sU8), option |-> JString(sU64)]),
     JObject([option |-> JString(sU8), coption |-> JString(sU64)]),
     JObject([defined |-> JString(sFoo), vec |-> JString(sU8)]),
     JObject([defined |-> Four, array |-> JArray(<<JString(sU8), Four>>), vec |-> JString(sU8)]),
     JObject([array |-> JArray(<<JString(sU8)>>), coption |-> JString(sU8)])}

\* the values a field's "type" takes
TypeJsons ==
    {JString(p) : p \in Vocabulary \cup OtherStrings} \cup Nest(MaxDepth)
    \cup DefinedJsons \cup UnrecognizedJsons \cup NonTypeJsons \cup ArrayJsons \cup MultiKeyJsons

\* the values an enum variant's field takes
EnumFieldJsons ==
    {JString(sU64), JString(sFoo), JNull, Four,
     JObject([name |-> JString(sX), type |-> JString(sU64)]),
     JObject([name |-> JString(sX), type |-> JObject([defined |-> JString(sFoo)])]),
     JObject([name |-> JString(sX), type |-> JObject([vec |-> JString(sU8)])]),
     JObject([name |-> JString(sX), type |-> Four]),
     JObject([name |-> JString(sX), type |-> JObject(EmptyMap)]),
     JObject([name |-> Four, type |-> JString(sU64)]),
     JObject([name |-> JNull, type |-> JString(sU64)]),
     JObject([name |-> JString(sX), type |-> JString(sU64), defined |-> JString(sFoo)]),
     JObject([defined |-> JString(sFoo)]),
     JObject([defined |-> JObject([name |-> JString(sFoo)])]),
     JObject([defined |-> JString(sFoo), name |-> JString(sX)]),
     JObject([defined |-> JString(sFoo), type |-> JString(sU64)]),
     JObject([name |-> JString(sX)]),
     JObject([type |-> JString(sU64)]),
     JObject([array |-> JArray(<<JString(sU8), Four>>)]),
     JObject([vec |-> JString(sU8)]),
     JObject([option |-> JString(sU8)]),
     JObject([coption |-> JString(sU8)]),
     JObject(EmptyMap)}

\* explicit discriminators: short, of eight bytes, long, and the empty array
Discriminators ==
    {Nil, Ptr(<<>>), Ptr(<<7>>), Ptr(<<1, 2, 3, 4, 5, 6, 7, 8>>),
     Ptr(<<9, 8, 7, 6, 5, 4, 3, 2, 1>>)}

AccountNames == {sUserAccount, sUserAccountSnake, sVault, sFoo}
InstructionNames == {sInitialize, sInitializeCap, sInitPool, sInitPoolCamel}

BaseDoc ==
    [readable |-> TRUE, wellFormed |-> TRUE, fileName |-> sIdlJson, clientName |-> <<>>,
     name |-> sCounter, instructions |-> <<>>, accounts |-> <<>>, types |-> <<>>,
     errors |-> <<>>]

\* a struct type with one field of the type, and an instruction with one
\* argument of the type
TypeDoc(tj) ==
    [BaseDoc EXCEPT
        !.types = <<[name |-> sUserAccount, kind |-> "struct",
                     fields |-> <<[name |-> sValue, type |-> tj]>>, variants |-> <<>>]>>,
        !.instructions = <<[name |-> sInitialize, discriminator |-> Nil,
                            args |-> <<[name |-> sValue, type |-> tj]>>, accounts |-> <<>>]>>]

\* an enum type with one variant of one field
EnumDoc(ej) ==
    [BaseDoc EXCEPT
        !.types = <<[name |-> sShape, kind |-> "enum", fields |-> <<>>,
                     variants |-> <<[name |-> sCircle, fields |-> <<ej>>]>>]>>]

\* an account and an instruction, each with or without a discriminator
DiscriminatorDoc(an, ad, in, id) ==
    [BaseDoc EXCEPT
        !.accounts = <<[name |-> an, discriminator |-> ad]>>,
        !.instructions = <<[name |-> in, discriminator |-> id, args |-> <<>>, accounts |-> <<>>]>>]

\* references to the type Foo, bare and under wrappers
RECURSIVE RefNest(_)
RefNest(d) ==
    IF d = 0 THEN {JObject([defined |-> JString(sFoo)])}
    ELSE RefNest(d - 1) \cup Wrappers(RefNest(d - 1))

RefJsons == RefNest(MaxDepth - 1)

DeclKinds == {"struct", "enum"}

\* TypeDoc with a second type definition, Foo, that refers back to the first:
\* with tj a reference to Foo the two definitions refer to each other
DeclDoc(tj, kind) ==
    [TypeDoc(tj) EXCEPT
        !.types = @ \o <<[name |-> sFoo, kind |-> kind,
                          fields |-> <<[name |-> sX,
                                        type |-> JObject([defined |-> JString(sUserAccount)])]>>,
                          variants |-> <<>>]>>]

\* the "name" of the document (empty when the key is absent) and the base name
\* of the input path: with an extension, without one, and with an empty stem
ProgramNames == {<<>>, sProgram, sCounter, sMyType}
FileNames == {sIdlJson, sIdl, sDotJson}

NameDoc(name, fileName) == [BaseDoc EXCEPT !.name = name, !.fileName = fileName]

\* three entries for every section, three fields and three account uses, put in
\* the document in every order
Orders == {p \in [1..3 -> 1..3] : \A i, k \in 1..3 : p[i] = p[k] => i = k}

Permute(entries, p) == [i \in DOMAIN p |-> entries[p[i]]]

ErrorEntries ==
    <<[code |-> 6000, name |-> sFoo, msg |-> sX],
      [code |-> 6001, name |-> sGhost, msg |-> sValue],
      [code |-> 6002, name |-> sVault, msg |-> sFoo]>>

FieldEntries ==
    <<[name |-> sX, type |-> JString(sU8)],
      [name |-> sValue, type |-> JString(sU64)],
      [name |-> sFoo, type |-> JObject([vec |-> JString(sBool)])]>>

AccountUseEntries ==
    <<[name |-> sVault, writable |-> TRUE, signer |-> FALSE],
      [name |-> sUserAccountSnake, writable |-> FALSE, signer |-> TRUE],
      [name |-> sX, writable |-> FALSE, signer |-> FALSE]>>

TypeEntries(q) ==
    <<[name |-> sUserAccount, kind |-> "struct", fields |-> Permute(FieldEntries, q), variants |-> <<>>],
      [name |-> sShape, kind |-> "enum", fields |-> <<>>, variants |-> <<>>],
      [name |-> sCounter, kind |-> "other", fields |-> <<>>, variants |-> <<>>]>>

AccountEntries ==
    <<[name |-> sUserAccount, discriminator |-> Nil],
      [name |-> sVault, discriminator |-> Ptr(<<1, 2, 3, 4, 5, 6, 7, 8>>)],
      [name |-> sFoo, discriminator |-> Nil]>>

InstructionEntries(q) ==
    <<[name |-> sInitialize, discriminator |-> Nil,
       args |-> Permute(FieldEntries, q), accounts |-> Permute(AccountUseEntries, q)],
      [name |-> sInitPool, discriminator |-> Ptr(<<1, 2, 3, 4, 5, 6, 7, 8>>),
       args |-> <<>>, accounts |-> <<>>],
      [name |-> sInitPoolCamel, discriminator |-> Nil,
       args |-> <<FieldEntries[1]>>, accounts |-> <<AccountUseEntries[1]>>]>>

OrderDoc(p, q) ==
    [BaseDoc EXCEPT
        !.errors = Permute(ErrorEntries, p),
        !.types = Permute(TypeEntries(q), p),
        !.accounts = Permute(AccountEntries, p),
        !.instructions = Permute(InstructionEntries(q), p)]

Docs ==
    {TypeDoc(tj) : tj \in TypeJsons}
    \cup {DeclDoc(tj, kind) : tj \in RefJsons, kind \in DeclKinds}
    \cup {NameDoc(name, fileName) : name \in ProgramNames, fileName \in FileNames}
    \cup {OrderDoc(p, q) : p \in Orders, q \in Orders}
    \cup {EnumDoc(ej) : ej \in EnumFieldJsons}
    \cup {DiscriminatorDoc(an, d, sInitialize, d) : an \in AccountNames, d \in Discriminators}
    \cup {DiscriminatorDoc(sUserAccount, d, in, d) : in \in InstructionNames, d \in Discriminators}
    \cup {[BaseDoc EXCEPT !.readable = FALSE], [BaseDoc EXCEPT !.wellFormed = FALSE]}

(***************************************************************************)
(* Generate, step by step.                                                 *)
(***************************************************************************)
Running == [status |-> "running", err |-> NoErr]
NoFile == [exists |-> FALSE]
EmptyOut == [Errors |-> <<>>, Types |-> <<>>, Accounts |-> <<>>, Instructions |-> <<>>]

\* a file already at *outPath before the run; written tells the file this run
\* wrote from one that was there before
OldFile == [exists |-> TRUE, written |-> FALSE, formatted |-> TRUE, text |-> EmptyOut]
NoData == [Prefix |-> <<>>, ClientName |-> <<>>]

ErrRead == "open: no such file"
ErrParse == "failed to parse IDL"
ErrExecute == "template: error calling mapType"
ErrFormat == "go format failed"
ErrWrite == "write: permission denied"

\* How a failure ends Generate: src/main.go and src/unnamed/part_001 return the
\* error, src/unnamed/part_000 ends the process with log.Fatalf.
Ended(b, e) == [status |-> IF b = "part000" THEN "fatal" ELSE "returned", err |-> e]

Init ==
    /\ impl \in Impls
    /\ doc \in Docs
    /\ pc = "start"
    /\ idl = EmptyIDL
    /\ data = NoData
    /\ out = EmptyOut
    /\ calls = <<>>
    /\ file \in {NoFile, OldFile}
    /\ result = Running

\* data, err := os.ReadFile(*idlPath)
ReadFile ==
    /\ pc = "start"
    /\ IF doc.readable
       THEN pc' = "read" /\ UNCHANGED result
       ELSE pc' = "exit" /\ result' = Ended(impl, ErrRead)
    /\ UNCHANGED <<impl, doc, idl, data, out, calls, file>>

\* json.Unmarshal(data, &idl)
Unmarshal ==
    /\ pc = "read"
    /\ \E r \in {UnmarshalIDL(impl, doc)} :
          IF r.err = NoErr
          THEN pc' = "parsed" /\ idl' = r.idl /\ UNCHANGED result
          ELSE pc' = "exit" /\ result' = Ended(impl, ErrParse) /\ UNCHANGED idl
    /\ UNCHANGED <<impl, doc, data, out, calls, file>>

\* the defaults of idl.Name and *clientName, and the prefix
FillDefaults ==
    /\ pc = "parsed"
    /\ \E name \in {DefaultName(impl, idl.Name, doc.fileName)} :
          /\ idl' = [idl EXCEPT !.Name = name]
          /\ data' = [Prefix |-> PrefixOf(impl, name),
                      ClientName |-> ClientNameOf(impl, doc.clientName, name)]
    /\ pc' = "named"
    /\ UNCHANGED <<impl, doc, out, calls, file, result>>

\* tmpl.Execute: the Errors section
ExecuteErrors ==
    /\ pc = "named"
    /\ out' = [out EXCEPT !.Errors = ErrorsSection(impl, data.Prefix, idl.Errors)]
    /\ pc' = "errors"
    /\ UNCHANGED <<impl, doc, idl, data, calls, file, result>>

\* tmpl.Execute: the Types section
ExecuteTypes ==
    /\ pc = "errors"
    /\ \E r \in {TypesSection(impl, data.Prefix, idl.Types)} :
          IF r.panic
          THEN pc' = "exit" /\ result' = Ended(impl, ErrExecute) /\ UNCHANGED out
          ELSE pc' = "types" /\ out' = [out EXCEPT !.Types = r.v] /\ UNCHANGED result
    /\ UNCHANGED <<impl, doc, idl, data, calls, file>>

\* tmpl.Execute: the Accounts section
ExecuteAccounts ==
    /\ pc = "types"
    /\ \E r \in {AccountsSection(impl, data.Prefix, idl.Accounts)} :
          /\ out' = [out EXCEPT !.Accounts = r.v]
          /\ calls' = calls \o r.calls
    /\ pc' = "accounts"
    /\ UNCHANGED <<impl, doc, idl, data, file, result>>

\* tmpl.Execute: the Instructions section
ExecuteInstructions ==
    /\ pc = "accounts"
    /\ \E r \in {InstructionsSection(impl, data.Prefix, idl.Instructions)} :
          /\ calls' = calls \o r.calls
          /\ IF r.panic
             THEN pc' = "exit" /\ result' = Ended(impl, ErrExecute) /\ UNCHANGED out
             ELSE pc' = "rendered" /\ out' = [out EXCEPT !.Instructions = r.v] /\ UNCHANGED result
    /\ UNCHANGED <<impl, doc, idl, data, file>>

\* formatted, err := format.Source(buf.Bytes()): the formatter accepts the text
\* or not.  On a failure src/main.go and src/unnamed/part_001 go on to write
\* the unformatted text; src/unnamed/part_000 ends with log.Fatalf.
FormatSource ==
    /\ pc = "rendered"
    /\ \E ok \in BOOLEAN :
          IF ok THEN pc' = "formatted" /\ UNCHANGED result
          ELSE IF impl = "part000"
          THEN pc' = "exit" /\ result' = Ended(impl, ErrFormat)
          ELSE pc' = "unformatted" /\ UNCHANGED result
    /\ UNCHANGED <<impl, doc, idl, data, out, calls, file>>

\* os.WriteFile(*outPath, ...), in src/unnamed/part_000 after os.MkdirAll; the
\* write succeeds or not.  Generate returns the write's error (nil on success).
WriteFile ==
    /\ pc \in {"formatted", "unformatted"}
    /\ \E ok \in BOOLEAN :
          IF ok
          THEN /\ file' = [exists |-> TRUE, written |-> TRUE, formatted |-> (pc = "formatted"),
                          text |-> out]
               /\ result' = [status |-> "returned", err |-> NoErr]
          ELSE /\ UNCHANGED file
               /\ result' = Ended(impl, ErrWrite)
    /\ pc' = "exit"
    /\ UNCHANGED <<impl, doc, idl, data, out, calls>>

Next ==
    \/ ReadFile
    \/ Unmarshal
    \/ FillDefaults
    \/ ExecuteErrors
    \/ ExecuteTypes
    \/ ExecuteAccounts
    \/ ExecuteInstructions
    \/ FormatSource
    \/ WriteFile

Spec == Init /\ [][Next]_vars

(***************************************************************************)
(* Where a run stands, and the entries the claims look at.                 *)
(***************************************************************************)
\* the template has been executed to its end
Rendered ==
    \/ pc \in {"rendered", "formatted", "unformatted"}
    \/ pc = "exit" /\ result.err \in {NoErr, ErrFormat, ErrWrite}

\* json.Unmarshal has returned nil
ParsedOK ==
    \/ pc \in {"parsed", "named", "errors", "types", "accounts"}
    \/ Rendered
    \/ pc = "exit" /\ result.err = ErrExecute

\* json.Unmarshal has returned an error and Generate has ended on it
ParseFailed == pc = "exit" /\ result.err = ErrParse

AfterUnmarshal == ParsedOK \/ ParseFailed

\* the document is one of TypeDoc: the type value under test, its decoded
\* IdlType, and the Go type written for the instruction's argument and for the
\* struct's field
IsTypeDoc == Len(doc.instructions) = 1 /\ Len(doc.instructions[1].args) = 1 /\ doc.wellFormed
ArgJson == doc.instructions[1].args[1].type
ArgType == idl.Instructions[1].Args[1].Type
ArgGo == out.Instructions[1].args[1].type
FieldGo == out.Types[1].fields[1].type

\* the document is one of EnumDoc: the enum field value under test and its
\* decoded IdlEnumField
IsEnumDoc == Len(doc.types) = 1 /\ Len(doc.types[1].variants) = 1 /\ doc.wellFormed
EnumJson == doc.types[1].variants[1].fields[1]
EnumField == idl.Types[1].Variants[1].Fields[1]

\* Type Nodes with one shape set
Primitive(s) == [ZeroIdlType EXCEPT !.Primitive = s]
Defined(n) == [ZeroIdlType EXCEPT !.Defined = Ptr(n)]

IsObjectWith(j, keys) == j.t = "object" /\ keys \subseteq DOMAIN j.obj

RecognizedKeys == {"defined", "array", "vec", "option", "coption"}

(***************************************************************************)
(* C1.  Enum-field decoding classifies in a fixed order: a bare string s   *)
(* is the positional member ("", Primitive(s)); otherwise an object with   *)
(* both a "name" and a "type" key is the named member (the name, the       *)
(* decoded type) - or a parse error if its name or type does not decode,   *)
(* never a positional member; otherwise the value is decoded as a bare     *)
(* Type Node with an empty name.  The three fixtures decode to three       *)
(* distinct results, and an object with "defined" but without both "name"  *)
(* and "type" never gets a name.  (The builds that decode enum fields:     *)
(* src/main.go and src/unnamed/part_001.)                                  *)
(***************************************************************************)
C1_Classified(j) ==
    IF j.t = "string"
    THEN ParsedOK /\ EnumField = [Name |-> <<>>, Type |-> Primitive(j.str)]
    ELSE IF IsObjectWith(j, {"name", "type"})
    THEN IF j.obj["name"].t \in {"string", "null"} /\ UnmarshalJSON(impl, j.obj["type"]).err = NoErr
         THEN /\ ParsedOK
              /\ EnumField.Name = StringOf(j.obj["name"])
              /\ EnumField.Type = UnmarshalJSON(impl, j.obj["type"]).t
         ELSE ParseFailed
    ELSE IF UnmarshalJSON(impl, j).err = NoErr
         THEN ParsedOK /\ EnumField = [Name |-> <<>>, Type |-> UnmarshalJSON(impl, j).t]
         ELSE ParseFailed

C1_Fixtures(j) ==
    /\ j = JString(sU64) => EnumField = [Name |-> <<>>, Type |-> Primitive(sU64)]
    /\ j = JObject([name |-> JString(sX), type |-> JString(sU64)])
          => EnumField = [Name |-> sX, Type |-> Primitive(sU64)]
    /\ j = JObject([defined |-> JString(sFoo)]) => EnumField = [Name |-> <<>>, Type |-> Defined(sFoo)]
    /\ (IsObjectWith(j, {"defined"}) /\ ~ IsObjectWith(j, {"name", "type"}) /\ ParsedOK)
          => EnumField.Name = <<>>

C1_EnumFieldClassification ==
    (impl # "part000" /\ IsEnumDoc /\ AfterUnmarshal)
        => C1_Classified(EnumJson) /\ C1_Fixtures(EnumJson)

\* the run has decoded {"defined": "Foo", "name": "x"} as a positional Defined member
C1_Witness ==
    /\ impl = "main" /\ IsEnumDoc /\ ParsedOK
    /\ EnumJson = JObject([defined |-> JString(sFoo), name |-> JString(sX)])
    /\ EnumField = [Name |-> <<>>, Type |-> Defined(sFoo)]

(***************************************************************************)
(* C2.  For every name n, decoding {"defined": n} and decoding             *)
(* {"defined": {"name": n}} both succeed and give Defined(n), no other     *)
(* shape set.                                                              *)
(***************************************************************************)
C2_DefinedBothForms ==
    \A n \in DefinedNames :
        (/\ IsTypeDoc /\ AfterUnmarshal
         /\ ArgJson \in {JObject([defined |-> JString(n)]),
                         JObject([defined |-> JObject([name |-> JString(n)])])})
            => ParsedOK /\ ArgType = Defined(n)

(***************************************************************************)
(* C3.  Decoding an object that carries none of the keys defined, array,   *)
(* vec, option, coption returns no error: the Type Node has no shape set,  *)
(* mapType writes interface{} for it, and Generate does not end on a parse *)
(* or template error.                                                      *)
(***************************************************************************)
C3_UnknownShapeIsSoft ==
    (/\ IsTypeDoc /\ AfterUnmarshal
     /\ ArgJson.t = "object" /\ DOMAIN ArgJson.obj \cap RecognizedKeys = {})
        => /\ ParsedOK
           /\ ArgType = ZeroIdlType
           /\ Rendered => ArgGo = "interface{}"
           /\ ~ (pc = "exit" /\ result.err \in {ErrParse, ErrExecute})

(***************************************************************************)
(* C4.  An account or instruction whose entry supplies a "discriminator"   *)
(* array, of any length including 0, gets exactly the supplied values in   *)
(* the supplied order and no deriver is called for it; a deriver is called *)
(* only for an entry that supplies none.                                   *)
(***************************************************************************)
DeriverCalled(entity, name) ==
    \E k \in DOMAIN calls : calls[k].entity = entity /\ calls[k].name = Str(name)

Supplied(d) == [k \in 1..Len(d.v) |-> [byte |-> d.v[k]]]

C4_Verbatim(entity, entry, decl) ==
    IF entry.discriminator.nil
    THEN DeriverCalled(entity, entry.name)
    ELSE decl.discriminator = Supplied(entry.discriminator) /\ ~ DeriverCalled(entity, entry.name)

C4_ExplicitDiscriminatorVerbatim ==
    Rendered =>
        /\ \A i \in DOMAIN doc.accounts : C4_Verbatim("account", doc.accounts[i], out.Accounts[i])
        /\ \A i \in DOMAIN doc.instructions :
              C4_Verbatim("instruction", doc.instructions[i], out.Instructions[i])

(***************************************************************************)
(* C5.  An account without an explicit discriminator gets bytes 0..7 of    *)
(* the digest of "account:" followed by the normalized name: an underscore *)
(* before every capital letter that is not the first character, then all   *)
(* letters lower-cased (UserAccount is hashed as account:user_account).    *)
(***************************************************************************)
C5_Normalized(name) ==
    Flatten([i \in 1..Len(name) |->
                IF IsUpper(name[i]) /\ i > 1 THEN <<"_", ToLower(name[i])>> ELSE <<ToLower(name[i])>>])

DigestPrefix(msg) == [i \in 1..8 |-> [sha256 |-> Str(msg), index |-> i - 1]]

C5_AccountNameNormalized ==
    Rendered =>
        \A i \in DOMAIN doc.accounts :
            doc.accounts[i].discriminator.nil
                => out.Accounts[i].discriminator
                       = DigestPrefix(sAccount \o <<":">> \o C5_Normalized(doc.accounts[i].name))

(***************************************************************************)
(* C6.  A derived discriminator is exactly 8 bytes, bytes 0..7 in order of *)
(* the digest of namespace + ":" + name.  For an instruction the namespace *)
(* is "global" and the declared name is hashed unchanged (no underscore    *)
(* inserted, no lower-casing); for an account the namespace is "account"   *)
(* and the name hashed is the declared name or its normalized form.        *)
(***************************************************************************)
C6_DerivedIsDigestPrefix ==
    Rendered =>
        /\ \A i \in DOMAIN doc.instructions :
              DeriverCalled("instruction", doc.instructions[i].name)
                  => out.Instructions[i].discriminator
                         = DigestPrefix(sGlobal \o <<":">> \o doc.instructions[i].name)
        /\ \A i \in DOMAIN doc.accounts :
              DeriverCalled("account", doc.accounts[i].name)
                  => out.Accounts[i].discriminator
                         \in {DigestPrefix(sAccount \o <<":">> \o doc.accounts[i].name),
                              DigestPrefix(sAccount \o <<":">> \o C5_Normalized(doc.accounts[i].name))}

\* the discriminator of instruction initPool has been derived from "global:initPool"
C6_Witness ==
    /\ impl = "main" /\ Rendered
    /\ Len(doc.instructions) = 1 /\ doc.instructions[1].name = sInitPoolCamel
    /\ DeriverCalled("instruction", sInitPoolCamel)
    /\ Len(out.Instructions[1].discriminator) = 8
    /\ out.Instructions[1].discriminator[1] = [sha256 |-> "global:initPool", index |-> 0]
    /\ out.Instructions[1].discriminator[8] = [sha256 |-> "global:initPool", index |-> 7]

(***************************************************************************)
(* C7.  For every primitive of the vocabulary mapType writes the           *)
(* documented Go type - an unsigned integer of width w an unsigned type of *)
(* width w, a signed integer of width w a signed type of width w - and for *)
(* every other non-empty string it writes interface{}.  (What the 128-bit  *)
(* integers map to is the matter of C8; any dedicated 128-bit type is      *)
(* taken here.)                                                            *)
(***************************************************************************)
C7_Documented(p) ==
    CASE p = "bool" -> {"bool"}
      [] p = "u8" -> {"uint8"}
      [] p = "u16" -> {"uint16"}
      [] p = "u32" -> {"uint32"}
      [] p = "u64" -> {"uint64"}
      [] p = "i8" -> {"int8"}
      [] p = "i16" -> {"int16"}
      [] p = "i32" -> {"int32"}
      [] p = "i64" -> {"int64"}
      [] p = "u128" -> {"*big.Int", "bin.Uint128"}
      [] p = "i128" -> {"*big.Int", "bin.Int128"}
      [] p = "bytes" -> {"[]byte"}
      [] p = "string" -> {"string"}
      [] p \in {"pubkey", "publicKey"} -> {"solana.PublicKey"}

C7_PrimitiveTable ==
    (IsTypeDoc /\ Rendered /\ ArgJson.t = "string" /\ ArgJson.str # <<>>)
        => IF ArgJson.str \in Vocabulary
           THEN ArgGo \in C7_Documented(Str(ArgJson.str)) /\ FieldGo = ArgGo
           ELSE ArgGo = "interface{}" /\ FieldGo = ArgGo

(***************************************************************************)
(* C8, as claimed.  u128 and i128 each map to an arbitrary-precision       *)
(* integer type.                                                           *)
(***************************************************************************)
C8_ArbitraryPrecision ==
    (IsTypeDoc /\ Rendered /\ ArgJson \in {JString(sU128), JString(sI128)})
        => ArgGo = "*big.Int"

(***************************************************************************)
(* C8, amended.  u128 and i128 each map to a dedicated 128-bit-capable     *)
(* integer type: the arbitrary-precision *big.Int, or the library's        *)
(* 128-bit bin.Uint128 for u128 and bin.Int128 for i128; never a machine   *)
(* word type and never the opaque fallback.                                *)
(***************************************************************************)
MachineWordTypes ==
    {"uint8", "uint16", "uint32", "uint64", "int8", "int16", "int32", "int64", "uint", "int"}

C8_Dedicated128 ==
    (IsTypeDoc /\ Rendered /\ ArgJson \in {JString(sU128), JString(sI128)})
        => /\ ArgGo \in {"*big.Int", IF ArgJson.str = sU128 THEN "bin.Uint128" ELSE "bin.Int128"}
           /\ ArgGo \notin MachineWordTypes \cup {"interface{}"}
           /\ FieldGo = ArgGo

\* src/main.go has written bin.Uint128 for a u128 argument
C8_Witness ==
    /\ impl = "main" /\ IsTypeDoc /\ Rendered
    /\ ArgJson = JString(sU128)
    /\ ArgGo = "bin.Uint128"

(***************************************************************************)
(* C9.  Resolution composes structurally, outermost wrapper first: the     *)
(* type written for {"vec": e} is "[]" + the type written for e, for       *)
(* {"array": [e, n]} with a length n >= 0 it is "[n]" + that of e, for     *)
(* {"option": e} it is "*" + that of e; so                                 *)
(* {"vec": {"array": [{"option": "u8"}, 4]}} is written [][4]*uint8.       *)
(***************************************************************************)
IsOnly(j, key) == j.t = "object" /\ DOMAIN j.obj = {key}

\* what mapType writes for the inner value e
Resolved(e) == mapType(impl, data.Prefix, DecodeInner(impl, e)).go

IsLength(n) == n.t = "number" /\ n.tenths >= 0 /\ n.tenths % 10 = 0

C9_Fixture == JObject([vec |-> JObject([array |-> JArray(<<JObject([option |-> JString(sU8)]), Four>>)])])

C9_Composes(j) ==
    /\ IsOnly(j, "vec") => ArgGo = "[]" \o Resolved(j.obj["vec"])
    /\ IsOnly(j, "option") => ArgGo = "*" \o Resolved(j.obj["option"])
    /\ (IsOnly(j, "array") /\ j.obj["array"].t = "array" /\ Len(j.obj["array"].arr) = 2
            /\ IsLength(j.obj["array"].arr[2]))
          => ArgGo = "[" \o Itoa(j.obj["array"].arr[2].tenths \div 10) \o "]"
                     \o Resolved(j.obj["array"].arr[1])
    /\ j = C9_Fixture => ArgGo = "[][4]*uint8"
    /\ FieldGo = ArgGo

C9_StructuralComposition ==
    (IsTypeDoc /\ Rendered /\ (\E k \in {"vec", "option", "array"} : IsOnly(ArgJson, k)))
        => C9_Composes(ArgJson)

\* the three-level fixture has been resolved
C9_Witness ==
    /\ IsTypeDoc /\ Rendered /\ impl = "part000"
    /\ ArgJson = C9_Fixture
    /\ ArgGo = "[][4]*uint8"

(***************************************************************************)
(* C10.  For every inner value X, {"coption": X} decodes to a Type Node    *)
(* with the Coption shape set and the Option shape not set, distinct from  *)
(* the node of {"option": X}, and mapType writes "*" + the type of X for   *)
(* both.                                                                   *)
(***************************************************************************)
C10_CoptionDistinct ==
    (IsTypeDoc /\ AfterUnmarshal /\ IsOnly(ArgJson, "coption"))
        => /\ ParsedOK
           /\ ArgType = [ZeroIdlType EXCEPT !.Coption = Ptr(ArgJson.obj["coption"])]
           /\ ArgType # UnmarshalJSON(impl, JObject([option |-> ArgJson.obj["coption"]])).t
           /\ Rendered => ArgGo = "*" \o Resolved(ArgJson.obj["coption"])

(***************************************************************************)
(* C11.  For every name n, a field or argument of type {"defined": n} is   *)
(* resolved without a parse error and without a panic, and the type name   *)
(* written is the program prefix of the build followed by the PascalCase   *)
(* form of n: the same text whether the document declares a type named n   *)
(* (UserAccount always, Foo in the documents with a second definition) or  *)
(* not (Ghost).  The build src/unnamed/part_001 prefixes no name.          *)
(***************************************************************************)
TemplateFailed == pc = "exit" /\ result.err = ErrExecute

C11_DefinedByNameAlone ==
    \A n \in DefinedNames :
        (IsTypeDoc /\ AfterUnmarshal /\ ArgJson = JObject([defined |-> JString(n)]))
            => /\ ParsedOK
               /\ ArgType = Defined(n)
               /\ ~ TemplateFailed
               /\ Rendered => /\ ArgGo = Str(data.Prefix \o toPascalCase(impl, n))
                              /\ FieldGo = ArgGo

\* a reference to Ghost, which no type definition declares, has been written
C11_Witness ==
    /\ impl = "main" /\ IsTypeDoc /\ Rendered
    /\ ArgJson = JObject([defined |-> JString(sGhost)])
    /\ \A k \in DOMAIN doc.types : doc.types[k].name # sGhost
    /\ ArgGo = "CounterGhost"

(***************************************************************************)
(* C12.  The resolver is total: for every Type Node the decoder produces   *)
(* from a JSON value - an array pair whose second element is no number,    *)
(* wrappers around a number, a boolean, null or a list included - mapType  *)
(* returns a type text; it never panics, and the template execution never  *)
(* ends the run.                                                           *)
(***************************************************************************)
C12_ResolverTotal ==
    (IsTypeDoc /\ ParsedOK)
        => /\ ~ mapType(impl, data.Prefix, ArgType).panic
           /\ ~ TemplateFailed

(***************************************************************************)
(* C13.  After parsing and defaulting, the program name is the document's  *)
(* name when that is not empty, and the stem of the input file (its base   *)
(* name without the extension: counter for counter.json) when the document *)
(* has no name or an empty one; so it is not empty whenever the stem is    *)
(* not.                                                                    *)
(***************************************************************************)
Defaulted == ParsedOK /\ pc # "parsed"

C13_ProgramName ==
    Defaulted
        => /\ doc.name = <<>> => idl.Name = FileStem(doc.fileName)
           /\ (doc.name = <<>> /\ doc.fileName = sIdlJson) => idl.Name = sCounter
           /\ doc.name # <<>> => idl.Name = doc.name
           /\ FileStem(doc.fileName) # <<>> => idl.Name # <<>>

(***************************************************************************)
(* C14.  A run on a document that is not well-formed JSON ends with the    *)
(* parse error, and a run that has ended with the parse error or with the  *)
(* failure to read the input has not written to the output path: the file  *)
(* there is still absent, or still the file that was there before the run. *)
(***************************************************************************)
C14_NoWriteOnParseError ==
    /\ (pc = "exit" /\ doc.readable /\ ~ doc.wellFormed)
          => result.err = ErrParse /\ result.status \in {"returned", "fatal"}
    /\ (~ doc.readable \/ ~ doc.wellFormed) => file \in {NoFile, OldFile}
    /\ result.err \in {ErrRead, ErrParse} => file \in {NoFile, OldFile}

\* the run on a malformed document has ended with the parse error, the file
\* that was there before still in place
C14_Witness ==
    /\ pc = "exit" /\ ~ doc.wellFormed /\ impl = "main"
    /\ result = [status |-> "returned", err |-> ErrParse]
    /\ file = OldFile

(***************************************************************************)
(* C15.  When format.Source rejects the rendered text, Generate ends with  *)
(* the formatting error and never with success: a run that has ended with *)
(* unformatted text in the output file has ended with the formatting       *)
(* error, and a run that has ended with success has written formatted      *)
(* text.                                                                   *)
(***************************************************************************)
WroteUnformatted == file.exists /\ ~ file.formatted

C15_FormatFailureReported ==
    pc = "exit"
        => /\ WroteUnformatted => result.err = ErrFormat
           /\ result.err = NoErr => (file.exists /\ file # OldFile /\ file.formatted)

(***************************************************************************)
(* C16.  The rendered text keeps the order of the document: the k-th       *)
(* declaration of the errors, types, accounts and instructions sections is *)
(* the one of the k-th entry of the document (for types: of the k-th entry *)
(* the build declares), and the fields, arguments and account uses inside  *)
(* a declaration are in the order of the document.  The rendered text is a *)
(* function of the build and the document: whatever the run did besides    *)
(* (the formatter's verdict, the write), it is the one text computed from  *)
(* the document, and the text written to the file is that text.            *)
(***************************************************************************)
IsDeclaredIn(td) == impl = "part000" \/ td.kind \in {"struct", "enum"}

Tags(lines) == [i \in DOMAIN lines |-> lines[i].tag]
NamesOf(entries) == [i \in DOMAIN entries |-> Str(entries[i].name)]
PascalNamesOf(entries) == [i \in DOMAIN entries |-> Str(toPascalCase(impl, entries[i].name))]
Declared(name) == Str(data.Prefix \o toPascalCase(impl, name))

C16_TypesInOrder(ds) ==
    /\ Len(out.Types) = Len(ds)
    /\ \A k \in DOMAIN ds :
          /\ out.Types[k].name = Declared(ds[k].name)
          /\ out.Types[k].kind = "struct" => Tags(out.Types[k].fields) = NamesOf(ds[k].fields)

C16_InOrder ==
    /\ Len(out.Errors) = Len(doc.errors)
    /\ \A k \in DOMAIN doc.errors :
          /\ out.Errors[k].message = Str(doc.errors[k].msg)
          /\ out.Errors[k].name \in {"Err" \o Declared(doc.errors[k].name),
                                     Declared(doc.errors[k].name) \o "Error"}
    /\ C16_TypesInOrder(SelectSeq(doc.types, IsDeclaredIn))
    /\ Len(out.Accounts) = Len(doc.accounts)
    /\ \A k \in DOMAIN doc.accounts :
          out.Accounts[k].name = Declared(doc.accounts[k].name) \o "Discriminator"
    /\ Len(out.Instructions) = Len(doc.instructions)
    /\ \A k \in DOMAIN doc.instructions :
          /\ out.Instructions[k].name \in
                 {Declared(doc.instructions[k].name) \o "Discriminator",
                  Declared(doc.instructions[k].name) \o "InstructionDiscriminator"}
          /\ Tags(out.Instructions[k].args) = NamesOf(doc.instructions[k].args)
          /\ [i \in DOMAIN out.Instructions[k].accounts |-> out.Instructions[k].accounts[i].name]
                 = PascalNamesOf(doc.instructions[k].accounts)

C16_TextOf(b, parsed, prefix) ==
    [Errors |-> ErrorsSection(b, prefix, parsed.Errors),
     Types |-> TypesSection(b, prefix, parsed.Types).v,
     Accounts |-> AccountsSection(b, prefix, parsed.Accounts).v,
     Instructions |-> InstructionsSection(b, prefix, parsed.Instructions).v]

\* the text a run of build b renders from document d
C16_Text(b, d) ==
    C16_TextOf(b, UnmarshalIDL(b, d).idl, PrefixOf(b, DefaultName(b, d.name, d.fileName)))

C16_OrderedAndDeterministic ==
    Rendered
        => /\ C16_InOrder
           /\ out = C16_Text(impl, doc)
           /\ (file.exists /\ file.written) => file.text = out

\* a document with its entries and fields out of their alphabetical or any
\* sorted order has been rendered in the document's order
C16_Witness ==
    /\ Rendered /\ impl = "part000"
    /\ NamesOf(doc.errors) = <<"vault", "Foo", "Ghost">>
    /\ [k \in DOMAIN out.Errors |-> out.Errors[k].message] = <<"Foo", "x", "value">>
    /\ NamesOf(doc.instructions) = <<"initPool", "initialize", "init_pool">>
    /\ Tags(out.Instructions[2].args) = <<"value", "Foo", "x">>
    /\ [i \in 1..3 |-> out.Instructions[2].accounts[i].name] = <<"UserAccount", "X", "Vault">>
    /\ [k \in DOMAIN out.Types |-> out.Types[k].name]
           = <<"CounterCounter", "CounterUserAccount", "CounterShape">>
    /\ file.exists /\ file.written

(***************************************************************************)
(* C17.  After a Type Node has been decoded without error, at most one of  *)
(* the six shapes Primitive, Defined, Array, Vec, Option, Coption is set;  *)
(* exactly one is set when the value is a non-empty string or an object    *)
(* that carries a well-formed recognized key; and of several recognized    *)
(* keys the shape kept is that of the first well-formed one in the order   *)
(* defined, array, vec, option, coption.                                   *)
(***************************************************************************)
ShapesSet(t) ==
    {k \in {"Defined", "Array", "Vec", "Option", "Coption"} : ~ t[k].nil}
    \cup (IF t.Primitive # <<>> THEN {"Primitive"} ELSE {})

\* the value under a recognized key has the form the key asks for
WellFormedKey(j, key) ==
    /\ IsObjectWith(j, {key})
    /\ key = "defined" =>
          \/ j.obj[key].t = "string"
          \/ j.obj[key].t = "object" /\ MapGet(j.obj[key].obj, "name").t = "string"
    /\ key = "array" => j.obj[key].t = "array" /\ Len(j.obj[key].arr) = 2

KeyOrder == <<"defined", "array", "vec", "option", "coption">>
ShapeOfKey == <<"Defined", "Array", "Vec", "Option", "Coption">>

\* the first well-formed recognized key of the object, 0 when there is none
FirstKey(j) ==
    IF \E i \in 1..5 : WellFormedKey(j, KeyOrder[i])
    THEN CHOOSE i \in 1..5 :
             WellFormedKey(j, KeyOrder[i]) /\ \A k \in 1..(i - 1) : ~ WellFormedKey(j, KeyOrder[k])
    ELSE 0

C17_OneShape ==
    (IsTypeDoc /\ ParsedOK)
        => /\ Cardinality(ShapesSet(ArgType)) <= 1
           /\ (ArgJson.t = "string" /\ ArgJson.str # <<>>) => ShapesSet(ArgType) = {"Primitive"}
           /\ (ArgJson.t = "object" /\ FirstKey(ArgJson) # 0)
                 => ShapesSet(ArgType) = {ShapeOfKey[FirstKey(ArgJson)]}

(***************************************************************************)
(* C18.  An "array" value gives the Array shape only when it is a list of  *)
(* exactly two elements [element, length]; the fixed-size type written for *)
(* it then has the length written in the document, a non-negative integer: *)
(* the text is "[" length "]" and the element's type, never a negative     *)
(* length and never a length other than the document's.                    *)
(***************************************************************************)
C18_ArrayLength ==
    (IsTypeDoc /\ ParsedOK /\ IsOnly(ArgJson, "array"))
        => /\ ~ ArgType.Array.nil
              <=> (ArgJson.obj["array"].t = "array" /\ Len(ArgJson.obj["array"].arr) = 2)
           /\ (Rendered /\ ~ ArgType.Array.nil)
                 => /\ IsLength(ArgType.Array.v[2])
                    /\ ArgGo = "[" \o Itoa(ArgType.Array.v[2].tenths \div 10) \o "]"
                               \o Resolved(ArgType.Array.v[1])

(***************************************************************************)
(* C19.  For every Type Node a document gives, mapType returns after       *)
(* finitely many invocations: when it does not panic, the number of nested *)
(* invocations is the nesting depth of the wrappers (array, vec, option,   *)
(* coption) in the node.  A Defined reference is a leaf: it is resolved by *)
(* the one invocation, with no nested one, also when the referenced        *)
(* definition refers back to the definition that holds the reference.      *)
(***************************************************************************)
\* the inner value of the wrapper shape set in t
InnerOf(t) ==
    IF ~ t.Array.nil THEN t.Array.v[1]
    ELSE IF ~ t.Vec.nil THEN t.Vec.v
    ELSE IF ~ t.Option.nil THEN t.Option.v
    ELSE t.Coption.v

\* nesting depth of the wrappers in the node t
RECURSIVE NodeDepth(_, _)
NodeDepth(b, t) ==
    IF ShapesSet(t) \cap {"Array", "Vec", "Option", "Coption"} = {} THEN 0
    ELSE 1 + NodeDepth(b, DecodeInner(b, InnerOf(t)))

\* the documents whose two type definitions refer to each other
IsCyclicDoc ==
    /\ Len(doc.types) = 2
    /\ doc.types[2].fields[1].type = JObject([defined |-> JString(doc.types[1].name)])
    /\ doc.types[1].fields[1].type \in RefJsons

C19_NestedCalls(r, t) ==
    /\ r.n \in 1..(NodeDepth(impl, t) + 1)
    /\ ~ r.panic => r.n - 1 = NodeDepth(impl, t)
    /\ ~ t.Defined.nil => r.n = 1 /\ ~ r.panic

C19_ResolveDepth ==
    (IsTypeDoc /\ ParsedOK)
        => /\ C19_NestedCalls(mapType(impl, data.Prefix, ArgType), ArgType)
           /\ IsCyclicDoc => (~ TemplateFailed
                              /\ C19_NestedCalls(mapType(impl, data.Prefix, idl.Types[2].Fields[1].Type),
                                                 idl.Types[2].Fields[1].Type))

\* a reference to Foo under two wrappers, Foo referring back, has been
\* resolved with two nested invocations
C19_Witness ==
    /\ IsTypeDoc /\ IsCyclicDoc /\ Rendered /\ impl = "part001"
    /\ ArgJson = JObject([vec |-> JObject([option |-> JObject([defined |-> JString(sFoo)])])])
    /\ mapType(impl, data.Prefix, ArgType).n = 3
    /\ NodeDepth(impl, ArgType) = 2
    /\ ArgGo = "[]*Foo"

(***************************************************************************)
(* C20.  For every type definition named n that the output declares, a     *)
(* reference {"defined": n} in a field or an instruction argument -        *)
(* directly, or inside vec, option or array wrappers at any depth - is     *)
(* written with the very name the definition is declared under.            *)
(***************************************************************************)
\* j is a reference to the type named n, bare or under vec / option / array
RECURSIVE RefersTo(_, _)
RefersTo(j, n) ==
    IF j = JObject([defined |-> JString(n)]) THEN TRUE
    ELSE IF IsOnly(j, "vec") THEN RefersTo(j.obj["vec"], n)
    ELSE IF IsOnly(j, "option") THEN RefersTo(j.obj["option"], n)
    ELSE IF IsOnly(j, "array") /\ j.obj["array"].t = "array" /\ Len(j.obj["array"].arr) = 2
            /\ IsLength(j.obj["array"].arr[2])
    THEN RefersTo(j.obj["array"].arr[1], n)
    ELSE FALSE

\* the text of the wrappers around the reference
RECURSIVE WrapperText(_)
WrapperText(j) ==
    IF IsOnly(j, "vec") THEN "[]" \o WrapperText(j.obj["vec"])
    ELSE IF IsOnly(j, "option") THEN "*" \o WrapperText(j.obj["option"])
    ELSE IF IsOnly(j, "array")
    THEN "[" \o Itoa(j.obj["array"].arr[2].tenths \div 10) \o "]" \o WrapperText(j.obj["array"].arr[1])
    ELSE ""

C20_ReferenceNamesDeclaration ==
    (IsTypeDoc /\ Rendered /\ Len(out.Types) = Len(doc.types))
        => \A k \in DOMAIN doc.types :
              RefersTo(ArgJson, doc.types[k].name)
                  => /\ ArgGo = WrapperText(ArgJson) \o out.Types[k].name
                     /\ FieldGo = WrapperText(ArgJson) \o out.Types[k].name

====
